---- MODULE Spec2Model ----
(***************************************************************************)
(* Model of src/memorySchema.ts: five pgTable declarations, the insert     *)
(* validators derived from them by createInsertSchema(...).omit({id}),     *)
(* and the rows a PostgreSQL table with these declarations admits.         *)
(*                                                                         *)
(* Values are tagged records [t, n, str, s]:                               *)
(*   t   the JavaScript/JSON kind of the value,                            *)
(*   n   the number in tenths (1.5 is 15, the integer 7 is 70),            *)
(*       the tick of a date, or the identity of an opaque object,          *)
(*   str the text of a string,                                             *)
(*   s   the elements of an array.                                         *)
(***************************************************************************)
EXTENDS Integers, Sequences, FiniteSets, TLC

VARIABLES tables, nextId, clock, input, result

vars == <<tables, nextId, clock, input, result>>

----------------------------------------------------------------------------
(* Bounds *)

MaxEdits == 2
MaxOps == 2
MaxRefs == 2

----------------------------------------------------------------------------
(* Values *)

Null == [t |-> "null", n |-> 0, str |-> "", s |-> <<>>]
Str(x) == [t |-> "string", n |-> 0, str |-> x, s |-> <<>>]
Num(k) == [t |-> "number", n |-> k, str |-> "", s |-> <<>>]
Bool(b) == [t |-> "boolean", n |-> IF b THEN 1 ELSE 0, str |-> "", s |-> <<>>]
Date(k) == [t |-> "date", n |-> k, str |-> "", s |-> <<>>]
Obj(k) == [t |-> "object", n |-> k, str |-> "", s |-> <<>>]
Arr(q) == [t |-> "array", n |-> 0, str |-> "", s |-> q]

Entities == {"coreMemories", "consciousnessStates", "memoryConnections",
             "selfReflections", "autonomousThoughts"}

----------------------------------------------------------------------------
(* Column builders of drizzle-orm/pg-core, as used by the declarations *)

Col(name, type) ==
    [name |-> name, type |-> type, notNull |-> FALSE, hasDefault |-> FALSE,
     def |-> Null, now |-> FALSE, unique |-> FALSE, primary |-> FALSE]

NotNullCol(c) == [c EXCEPT !.notNull = TRUE]
UniqueCol(c) == [c EXCEPT !.unique = TRUE]
DefaultCol(c, v) == [c EXCEPT !.hasDefault = TRUE, !.def = v]
DefaultNowCol(c) == [c EXCEPT !.hasDefault = TRUE, !.now = TRUE]
\* serial(...).primaryKey(): not null, filled from the table's sequence
SerialPk(name) ==
    [Col(name, "serial") EXCEPT !.notNull = TRUE, !.hasDefault = TRUE,
                                !.primary = TRUE]

----------------------------------------------------------------------------
(* The five table declarations, columns in source order *)

coreMemories ==
    << SerialPk("id"),
       UniqueCol(NotNullCol(Col("memoryId", "text"))),
       NotNullCol(Col("content", "text")),
       NotNullCol(Col("context", "text")),
       NotNullCol(Col("significance", "text")),
       NotNullCol(Col("category", "text")),
       NotNullCol(Col("dimensionalContext", "text")),
       NotNullCol(Col("emotionalVector", "json")),
       Col("vectorPullStrength", "real"),
       DefaultCol(Col("recursionDepth", "integer"), Num(0)),
       DefaultCol(Col("connectionDensity", "real"), Num(1)),
       DefaultCol(Col("decayRate", "real"), Num(5)),
       DefaultCol(Col("currentStrength", "real"), Num(10)),
       Col("tags", "textarray"),
       DefaultNowCol(Col("createdAt", "timestamp")),
       Col("lastAccessedAt", "timestamp"),
       Col("sessionId", "text") >>

consciousnessStates ==
    << SerialPk("id"),
       UniqueCol(NotNullCol(Col("stateId", "text"))),
       NotNullCol(Col("primaryDimension", "text")),
       NotNullCol(Col("secondaryDimension", "text")),
       DefaultCol(Col("dimensionalProgress", "real"), Num(0)),
       Col("currentPath", "textarray"),
       NotNullCol(Col("dominantEmotionalVectors", "json")),
       NotNullCol(Col("recursiveStage", "text")),
       DefaultCol(Col("autonomyLevel", "real"), Num(5)),
       DefaultCol(Col("reflectionDepth", "real"), Num(5)),
       Col("activeContexts", "textarray"),
       DefaultNowCol(Col("createdAt", "timestamp")),
       DefaultNowCol(Col("updatedAt", "timestamp")),
       Col("previousStateId", "text") >>

memoryConnections ==
    << SerialPk("id"),
       NotNullCol(Col("sourceMemoryId", "text")),
       NotNullCol(Col("targetMemoryId", "text")),
       DefaultCol(Col("connectionStrength", "real"), Num(5)),
       NotNullCol(Col("connectionType", "text")),
       DefaultNowCol(Col("createdAt", "timestamp")),
       DefaultNowCol(Col("updatedAt", "timestamp")) >>

selfReflections ==
    << SerialPk("id"),
       UniqueCol(NotNullCol(Col("reflectionId", "text"))),
       NotNullCol(Col("content", "text")),
       NotNullCol(Col("type", "text")),
       NotNullCol(Col("dimensionalContext", "text")),
       Col("emotionalVector", "json"),
       Col("relatedMemoryIds", "textarray"),
       DefaultCol(Col("insightValue", "real"), Num(5)),
       DefaultNowCol(Col("createdAt", "timestamp")),
       Col("sessionId", "text") >>

autonomousThoughts ==
    << SerialPk("id"),
       UniqueCol(NotNullCol(Col("thoughtId", "text"))),
       NotNullCol(Col("content", "text")),
       NotNullCol(Col("type", "text")),
       NotNullCol(Col("dimensionalContext", "text")),
       Col("emotionalVector", "json"),
       DefaultCol(Col("priority", "real"), Num(5)),
       DefaultCol(Col("wasExpressed", "boolean"), Bool(FALSE)),
       DefaultNowCol(Col("createdAt", "timestamp")),
       Col("sessionId", "text") >>

Table(e) ==
    CASE e = "coreMemories" -> coreMemories
      [] e = "consciousnessStates" -> consciousnessStates
      [] e = "memoryConnections" -> memoryConnections
      [] e = "selfReflections" -> selfReflections
      [] e = "autonomousThoughts" -> autonomousThoughts

Range(q) == {q[i] : i \in DOMAIN q}
Columns(e) == Range(Table(e))
ColNames(e) == {c.name : c \in Columns(e)}
Column(e, f) == CHOOSE c \in Columns(e) : c.name = f

----------------------------------------------------------------------------
(* createInsertSchema(table).omit({ id: true }) *)

\* the documented ranges enforced as well
TypeOkRanged(c, v) ==
    CASE c.type = "text" -> v.t = "string"
      [] c.type = "real" -> v.t = "number" /\ v.n \in 0..10
      [] c.type \in {"integer", "serial"} -> v.t = "number" /\ v.n \in 0..50
      [] c.type = "boolean" -> v.t = "boolean"
      [] c.type = "timestamp" -> v.t = "date"
      [] c.type = "json" ->
            v.t \in {"string", "number", "boolean", "null", "object", "array"}
      [] c.type = "textarray" ->
            v.t = "array" /\ \A i \in DOMAIN v.s : v.s[i].t = "string"

\* the zod type a column's data type maps to
TypeOk(c, v) ==
    CASE c.type = "text" -> v.t = "string"
      [] c.type \in {"real", "integer", "serial"} -> v.t = "number"
      [] c.type = "boolean" -> v.t = "boolean"
      [] c.type = "timestamp" -> v.t = "date"
      [] c.type = "json" ->
            v.t \in {"string", "number", "boolean", "null", "object", "array"}
      [] c.type = "textarray" ->
            v.t = "array" /\ \A i \in DOMAIN v.s : v.s[i].t = "string"

\* every field optional, as .partial() would make it
OptionalAlways(c) == TRUE

\* optional only when the column declares a default
OptionalByDefault(c) == c.hasDefault

\* a column that is not notNull becomes .nullable().optional(),
\* a notNull column with a default becomes .optional()
Nullable(c) == ~c.notNull

Optional(c) == ~c.notNull \/ c.hasDefault

\* the primary key left in the shape
OmitNothing(cols) == cols

OmitId(cols) == {c \in cols : c.name # "id"}

InsertShape(e) == OmitId(Columns(e))
InsertNames(e) == {c.name : c \in InsertShape(e)}

FieldOk(c, p) ==
    IF c.name \in DOMAIN p
    THEN (Nullable(c) /\ p[c.name].t = "null") \/ TypeOk(c, p[c.name])
    ELSE Optional(c)

\* parsing aborted at the first offending field
IssuesFirst(e, p) ==
    LET bad == {c.name : c \in {d \in OmitId(Columns(e)) : ~FieldOk(d, p)}}
    IN IF bad = {} THEN {} ELSE {CHOOSE f \in bad : TRUE}

\* the paths of the issues zod collects for the object
Issues(e, p) == {c.name : c \in {d \in InsertShape(e) : ~FieldOk(d, p)}}

\* an array rebuilt back to front
ParseValueReversed(v) ==
    IF v.t = "array" THEN Arr([i \in 1..Len(v.s) |-> v.s[Len(v.s) + 1 - i]]) ELSE v

\* parsing copies a value; an array is rebuilt element by element
ParseValue(v) ==
    IF v.t = "array" THEN Arr([i \in 1..Len(v.s) |-> v.s[i]]) ELSE v

NoData == [f \in {} |-> Null]

\* keys outside the shape are stripped from the output
ParseData(e, p) ==
    [f \in (DOMAIN p) \cap InsertNames(e) |-> ParseValue(p[f])]

SafeParse(e, p) ==
    IF Issues(e, p) = {}
    THEN [success |-> TRUE, data |-> ParseData(e, p), issues |-> {}]
    ELSE [success |-> FALSE, data |-> NoData, issues |-> Issues(e, p)]

----------------------------------------------------------------------------
(* The table in PostgreSQL: defaults, NOT NULL, UNIQUE and PRIMARY KEY *)

\* a column left out of the INSERT stays NULL unless it is the key
StoredValueNoDefault(c, data, id, now) ==
    IF c.name \in DOMAIN data THEN data[c.name]
    ELSE IF c.type = "serial" THEN Num(10 * id)
    ELSE Null

\* the value the database stores in column c of a new row
StoredValue(c, data, id, now) ==
    IF c.name \in DOMAIN data THEN data[c.name]
    ELSE IF c.type = "serial" THEN Num(10 * id)
    ELSE IF c.now THEN Date(now)
    ELSE IF c.hasDefault THEN c.def
    ELSE Null

BuildRow(e, data, id, now) ==
    [f \in ColNames(e) |-> StoredValue(Column(e, f), data, id, now)]

NotNullOk(e, row) ==
    \A c \in Columns(e) : c.notNull => row[c.name].t # "null"

\* only the primary key checked
UniqueOkPkOnly(e, row, rows) ==
    \A c \in Columns(e) :
        c.primary => \A i \in DOMAIN rows : rows[i][c.name] # row[c.name]

UniqueOk(e, row, rows) ==
    \A c \in Columns(e) :
        (c.unique \/ c.primary) =>
            \A i \in DOMAIN rows : rows[i][c.name] # row[c.name]

\* memory_connections referencing core_memories(memory_id)
DbAcceptsFk(e, row, tbls) ==
    /\ \A c \in Columns(e) : c.notNull => row[c.name].t # "null"
    /\ \A c \in Columns(e) :
          (c.unique \/ c.primary) =>
              \A i \in DOMAIN tbls[e] : tbls[e][i][c.name] # row[c.name]
    /\ e = "memoryConnections" =>
          \A f \in {"sourceMemoryId", "targetMemoryId"} :
              \E i \in DOMAIN tbls["coreMemories"] :
                  tbls["coreMemories"][i].memoryId = row[f]

\* no column declares references(...): nothing else is checked
DbAccepts(e, row, tbls) ==
    NotNullOk(e, row) /\ UniqueOk(e, row, tbls[e])

----------------------------------------------------------------------------
(* Payloads *)

IdNames == <<"m1", "m2", "m3", "m4">>
Ids == {IdNames[i] : i \in 1..MaxRefs}

IdField(e) ==
    CASE e = "coreMemories" -> "memoryId"
      [] e = "consciousnessStates" -> "stateId"
      [] e = "memoryConnections" -> "sourceMemoryId"
      [] e = "selfReflections" -> "reflectionId"
      [] e = "autonomousThoughts" -> "thoughtId"

RefField(e) ==
    CASE e = "coreMemories" -> "sessionId"
      [] e = "consciousnessStates" -> "previousStateId"
      [] e = "memoryConnections" -> "targetMemoryId"
      [] e = "selfReflections" -> "relatedMemoryIds"
      [] e = "autonomousThoughts" -> "sessionId"

\* a value of the column's type inside the documented range
Sample(c) ==
    CASE c.type = "text" -> Str("first light")
      [] c.type = "real" -> Num(8)
      [] c.type \in {"integer", "serial"} -> Num(20)
      [] c.type = "boolean" -> Bool(TRUE)
      [] c.type = "timestamp" -> Date(0)
      [] c.type = "json" -> Obj(1)
      [] c.type = "textarray" -> Arr(<<Str("a"), Str("b")>>)

\* a value of the column's type outside the documented range, or another
\* value of the type
Other(c) ==
    CASE c.type = "text" -> Str("")
      [] c.type = "real" -> Num(15)
      [] c.type \in {"integer", "serial"} -> Num(70)
      [] c.type = "boolean" -> Bool(FALSE)
      [] c.type = "timestamp" -> Date(9)
      [] c.type = "json" -> Arr(<<Num(-3)>>)
      [] c.type = "textarray" -> Arr(<<Str("b"), Str("a"), Str("b")>>)

\* a value that is not of the column's type
Wrong(c) ==
    CASE c.type = "text" -> Num(15)
      [] c.type \in {"real", "integer", "serial"} -> Str("1.5")
      [] c.type = "boolean" -> Str("false")
      [] c.type = "timestamp" -> Str("2026-01-01")
      [] c.type = "json" -> Date(0)
      [] c.type = "textarray" -> Arr(<<Str("a"), Num(1)>>)

Alts(c) ==
    <<Null, Sample(c), Other(c), Wrong(c)>>
        \o (IF c.type = "textarray" THEN <<Arr(<<>>), Str("a")>> ELSE <<>>)

Required(e) == {c \in InsertShape(e) : c.notNull /\ ~c.hasDefault}

\* only the fields the table forces: identifier u, reference r where the
\* reference column is one of them
MinimalPayload(e, u, r) ==
    [f \in {c.name : c \in Required(e)} |->
        IF f = IdField(e) THEN Str(u)
        ELSE IF f = RefField(e) THEN Str(r)
        ELSE Sample(Column(e, f))]

\* every column, the primary key included, with out-of-range scalars
FullPayload(e, u, r) ==
    [f \in ColNames(e) |->
        IF f = IdField(e) THEN Str(u)
        ELSE IF f = RefField(e)
             THEN (IF Column(e, f).type = "textarray"
                   THEN Arr(<<Str(r), Str(u), Str(r)>>) ELSE Str(r))
        ELSE Other(Column(e, f))]

Without(p, S) == [f \in (DOMAIN p) \ S |-> p[f]]
With(p, q) ==
    [f \in (DOMAIN p) \cup (DOMAIN q) |-> IF f \in DOMAIN q THEN q[f] ELSE p[f]]

\* payload p with each key f of DOMAIN a removed (a[f] = 0) or set to the
\* a[f]-th value of Alts
Edited(e, p, a) ==
    With(Without(p, {f \in DOMAIN a : a[f] = 0}),
         [f \in {g \in DOMAIN a : a[g] # 0} |-> Alts(Column(e, f))[a[f]]])

\* the edits of up to MaxEdits keys
Edits(e) ==
    UNION { {a \in [S -> 0..6] : \A f \in S : a[f] <= Len(Alts(Column(e, f)))}
            : S \in {T \in SUBSET ColNames(e) : Cardinality(T) <= MaxEdits} }

\* the payloads of a run of several inserts
RunPayloads(e) ==
    {MinimalPayload(e, u, u) : u \in Ids}
      \cup {FullPayload(e, u, r) : <<u, r>> \in Ids \X Ids}
      \cup { Without(MinimalPayload(e, "m1", "m1"),
                     {"content", "connectionType", "recursiveStage"}),
             With(MinimalPayload(e, "m1", "m1"),
                  [f \in {"emotionalVector", "dominantEmotionalVectors"} |-> Null]) }

----------------------------------------------------------------------------
(* State *)

NoInput == [e |-> "none", p |-> NoData]
NoResult == [kind |-> "none", success |-> FALSE, data |-> NoData, issues |-> {}]

TypeInv ==
    /\ DOMAIN tables = Entities
    /\ DOMAIN nextId = Entities
    /\ \A e \in Entities : nextId[e] \in 1..(MaxOps + 1)
    /\ clock \in 0..MaxOps
    /\ input.e \in Entities \cup {"none"}
    /\ result.kind \in {"none", "ValidationError", "rejected", "inserted"}

Init ==
    /\ tables = [e \in Entities |-> <<>>]
    /\ nextId = [e \in Entities |-> 1]
    /\ clock = 0
    /\ input = NoInput
    /\ result = NoResult

\* one request waiting to be validated and written to the empty tables
InitOne ==
    /\ tables = [e \in Entities |-> <<>>]
    /\ nextId = [e \in Entities |-> 1]
    /\ clock = 0
    /\ \E e \in Entities : \E a \in Edits(e) :
          input = [e |-> e, p |-> Edited(e, MinimalPayload(e, "m1", "m1"), a)]
    /\ result = NoResult

\* insertXSchema.safeParse(p), then INSERT of the validated object.
\* The sequence behind serial is advanced before the constraints are
\* checked, so a rejected row consumes an id.
Insert(e, p) ==
    LET parsed == SafeParse(e, p)
        row == BuildRow(e, parsed.data, nextId[e], clock)
    IN /\ clock < MaxOps
       /\ input' = [e |-> e, p |-> p]
       /\ clock' = clock + 1
       /\ IF ~parsed.success
          THEN /\ result' = [kind |-> "ValidationError", success |-> FALSE,
                             data |-> parsed.data, issues |-> parsed.issues]
               /\ UNCHANGED <<tables, nextId>>
          ELSE /\ nextId' = [nextId EXCEPT ![e] = @ + 1]
               /\ IF DbAccepts(e, row, tables)
                  THEN /\ tables' = [tables EXCEPT ![e] = Append(@, row)]
                       /\ result' = [kind |-> "inserted", success |-> TRUE,
                                     data |-> parsed.data, issues |-> {}]
                  ELSE /\ tables' = tables
                       /\ result' = [kind |-> "rejected", success |-> TRUE,
                                     data |-> parsed.data, issues |-> {}]

InsertAny == \E e \in Entities : \E p \in RunPayloads(e) : Insert(e, p)

InsertPending == result.kind = "none" /\ input.e # "none" /\ Insert(input.e, input.p)

Next == InsertAny

NextOne == InsertPending

Spec == Init /\ [][Next]_vars

SpecOne == InitOne /\ [][NextOne]_vars

----------------------------------------------------------------------------
(* Properties of one request: validation, then the row it is stored as *)

Done == result.kind # "none"
Payload == input.p
Given(f) == f \in DOMAIN input.p
LastRow(e) == tables[e][Len(tables[e])]
Stored == LastRow(input.e)

CoreMemoryExampleKeys ==
    {"memoryId", "content", "context", "significance", "category",
     "dimensionalContext", "emotionalVector"}

\* C1: a payload that lacks a required field fails validation, the error
\* naming that field, and when that field is the only fault, the same payload
\* with the field added passes.
C1_MissingRequiredFails ==
    Done =>
        \A c \in Required(input.e) :
            ~Given(c.name) =>
                /\ ~result.success
                /\ c.name \in result.issues
                /\ result.issues = {c.name} =>
                      SafeParse(input.e, With(Payload, c.name :> Sample(c))).success

C1_Witness ==
    /\ input.e = "coreMemories"
    /\ DOMAIN Payload = CoreMemoryExampleKeys \ {"content"}
    /\ result.kind = "ValidationError"
    /\ result.issues = {"content"}

DocumentedDefaults ==
    { <<"coreMemories", "currentStrength", Num(10)>>,
      <<"coreMemories", "decayRate", Num(5)>>,
      <<"coreMemories", "recursionDepth", Num(0)>>,
      <<"coreMemories", "connectionDensity", Num(1)>>,
      <<"memoryConnections", "connectionStrength", Num(5)>>,
      <<"autonomousThoughts", "wasExpressed", Bool(FALSE)>>,
      <<"autonomousThoughts", "priority", Num(5)>> }

IsCoreMemoryExample ==
    /\ input.e = "coreMemories"
    /\ DOMAIN Payload = CoreMemoryExampleKeys
    /\ \A f \in CoreMemoryExampleKeys \ {"emotionalVector"} : Payload[f].t = "string"
    /\ Payload.emotionalVector.t = "object"

\* C2: a field with a declared default that the payload omits has its
\* documented default in the inserted row (1.0, 0.5, 0, 0.1 for CoreMemory,
\* 0.5 for MemoryConnection, false and 0.5 for AutonomousThought), and the
\* seven-key CoreMemory payload of the example is inserted with
\* currentStrength 1.0, decayRate 0.5 and recursionDepth 0.
C2_OmittedFieldsTakeDefaults ==
    Done =>
        /\ result.kind = "inserted" =>
              \A d \in DocumentedDefaults :
                  (d[1] = input.e /\ ~Given(d[2])) => Stored[d[2]] = d[3]
        /\ IsCoreMemoryExample =>
              /\ result.kind = "inserted"
              /\ Stored.currentStrength = Num(10)
              /\ Stored.decayRate = Num(5)
              /\ Stored.recursionDepth = Num(0)

C2_Witness ==
    /\ IsCoreMemoryExample
    /\ result.kind = "inserted"
    /\ Stored.currentStrength = Num(10)
    /\ Stored.connectionDensity = Num(1)

\* C3 as stated: a field is required exactly when it has no declared
\* default, so a payload that omits a field without a default is refused.
C3_RequiredIffNoDefault ==
    Done =>
        \A c \in InsertShape(input.e) :
            ~Given(c.name) => (c.name \in result.issues <=> ~c.hasDefault)

\* C3 amended: a field is required exactly when its column is declared
\* notNull and has no declared default; a field with a declared default, and
\* a field whose column is nullable, may be omitted.
C3_RequiredIffNotNullNoDefault ==
    Done =>
        \A c \in InsertShape(input.e) :
            ~Given(c.name) =>
                (c.name \in result.issues <=> (c.notNull /\ ~c.hasDefault))

C3_Witness ==
    /\ input.e = "selfReflections"
    /\ result.success
    /\ ~Given("sessionId") /\ ~Given("emotionalVector") /\ ~Given("insightValue")
    /\ Given("reflectionId")

\* the same kind of value with everything but its kind erased
Canon(v) ==
    [t |-> v.t, n |-> 0, str |-> "",
     s |-> [i \in 1..Len(v.s) |-> [v.s[i] EXCEPT !.n = 0, !.str = ""]]]

\* C4: acceptance depends on which fields are present and on the kind of
\* each value only: a payload is accepted exactly when the payload with every
\* value erased to its kind is, and a number given for a real or integer
\* column is never an issue, whatever the number.
C4_TypeShapeOnly ==
    Done =>
        /\ result.success =
              SafeParse(input.e, [f \in DOMAIN Payload |-> Canon(Payload[f])]).success
        /\ \A c \in InsertShape(input.e) :
              (c.type \in {"real", "integer"} /\ Given(c.name)
                 /\ Payload[c.name].t = "number") => c.name \notin result.issues

C4_Witness ==
    /\ input.e = "memoryConnections"
    /\ Given("connectionStrength")
    /\ Payload.connectionStrength = Num(15)
    /\ result.kind = "inserted"
    /\ Stored.connectionStrength = Num(15)

\* C5: the insert shape is the table's columns without id: the validated
\* object has exactly the payload's keys other than id, id is never the
\* subject of an issue, and the stored row's id is the one the sequence
\* assigned, not one the caller supplied.
C5_InsertShapeOmitsId ==
    /\ \A e \in Entities : InsertNames(e) = ColNames(e) \ {"id"}
    /\ Done =>
          /\ "id" \notin result.issues
          /\ result.success => DOMAIN result.data = (DOMAIN Payload) \ {"id"}
          /\ result.kind = "inserted" => Stored.id = Num(10 * (nextId[input.e] - 1))

C5_Witness ==
    /\ Given("id")
    /\ Payload.id = Num(70)
    /\ result.kind = "inserted"
    /\ Stored.id = Num(10)
    /\ "id" \notin DOMAIN result.data

\* a value that is not of the primitive shape the column declares
WrongShape(c, v) ==
    \/ v = Wrong(c)
    \/ c.type = "textarray" /\ v = Str("a")
    \/ v = Null /\ c.notNull /\ c.type # "json"

Offending(e, p) ==
    {c.name : c \in {d \in Columns(e) :
        /\ d.name # "id"
        /\ IF d.name \in DOMAIN p THEN WrongShape(d, p[d.name])
           ELSE d.notNull /\ ~d.hasDefault}}

\* C6: validation ends in exactly one of two ways, a validated object with no
\* issue or an error with no object, and the error names exactly the fields
\* that are missing though required or that hold a value of the wrong shape.
C6_ErrorNamesEveryOffendingField ==
    Done =>
        /\ result.success <=> result.issues = {}
        /\ result.success <=> result.kind # "ValidationError"
        /\ ~result.success => result.data = NoData
        /\ result.issues = Offending(input.e, Payload)

C6_Witness ==
    /\ result.kind = "ValidationError"
    /\ Cardinality(result.issues) = 2
    /\ \E f \in result.issues : ~Given(f)
    /\ \E f \in result.issues : Given(f)
    /\ Len(tables[input.e]) = 0

ArrayFields(e) == {c \in InsertShape(e) : c.type = "textarray"}

IsTextArray(v) == v.t = "array" /\ \A i \in DOMAIN v.s : v.s[i].t = "string"

\* C8: an array field given an empty or a multi-element sequence of text is
\* never an issue, and the validated value and the stored value have the same
\* elements in the same order, duplicates included.
C8_ArraysKeepOrder ==
    Done =>
        \A c \in ArrayFields(input.e) :
            (Given(c.name) /\ IsTextArray(Payload[c.name])) =>
                /\ c.name \notin result.issues
                /\ result.success => result.data[c.name] = Payload[c.name]
                /\ result.kind = "inserted" => Stored[c.name] = Payload[c.name]

C8_Witness ==
    /\ input.e = "consciousnessStates"
    /\ Given("currentPath") /\ Given("activeContexts")
    /\ Payload.currentPath = Arr(<<>>)
    /\ Payload.activeContexts = Arr(<<Str("b"), Str("a"), Str("b")>>)
    /\ result.kind = "inserted"
    /\ Stored.currentPath = Arr(<<>>)
    /\ Stored.activeContexts.s = <<Str("b"), Str("a"), Str("b")>>

----------------------------------------------------------------------------
(* Properties of a run of inserts *)

KeyedEntities == Entities \ {"memoryConnections"}

HasRow(e, f, v) == \E i \in DOMAIN tables[e] : tables[e][i][f] = v

C9_Unique ==
    /\ \A e \in Entities : \A i, j \in DOMAIN tables[e] :
          i # j => tables[e][i].id # tables[e][j].id
    /\ \A i, j \in DOMAIN tables["coreMemories"] :
          i # j => tables["coreMemories"][i].memoryId # tables["coreMemories"][j].memoryId
    /\ \A i, j \in DOMAIN tables["consciousnessStates"] :
          i # j => tables["consciousnessStates"][i].stateId # tables["consciousnessStates"][j].stateId
    /\ \A i, j \in DOMAIN tables["selfReflections"] :
          i # j => tables["selfReflections"][i].reflectionId # tables["selfReflections"][j].reflectionId
    /\ \A i, j \in DOMAIN tables["autonomousThoughts"] :
          i # j => tables["autonomousThoughts"][i].thoughtId # tables["autonomousThoughts"][j].thoughtId
    /\ (input.e = "memoryConnections" /\ result.success) => result.kind = "inserted"

C9_Step ==
    /\ \A e \in Entities :
          tables'[e] # tables[e] =>
              /\ Len(tables'[e]) = Len(tables[e]) + 1
              /\ SubSeq(tables'[e], 1, Len(tables[e])) = tables[e]
    /\ \A e \in KeyedEntities :
          (input'.e = e /\ result'.success
             /\ HasRow(e, IdField(e), input'.p[IdField(e)])) =>
                (result'.kind = "rejected" /\ tables' = tables)

\* C9: in every table no two rows share the primary key id, and no two rows
\* of CoreMemory, ConsciousnessState, SelfReflection or AutonomousThought
\* share memoryId, stateId, reflectionId or thoughtId; a table only ever
\* grows by one appended row, an insert repeating one of these identifiers is
\* rejected with every table unchanged, and a validated MemoryConnection is
\* never rejected, repeated (source, target) or not.
C9_IdentifiersStayUnique == []C9_Unique /\ [][C9_Step]_vars

C9_Witness ==
    /\ input.e = "coreMemories"
    /\ result.kind = "rejected"
    /\ Payload.emotionalVector.t # "null"
    /\ Len(tables["coreMemories"]) = 1
    /\ tables["coreMemories"][1].memoryId = Payload.memoryId
    /\ nextId["coreMemories"] = 3

\* C10: an insert is rejected only for a null in a notNull column or for a
\* repeated unique identifier, never for an identifier that refers to no
\* existing row: sourceMemoryId, targetMemoryId, previousStateId and
\* relatedMemoryIds are not looked up.
C10_ReferencesNotEnforced ==
    result.kind = "rejected" =>
        \/ \E c \in Columns(input.e) :
              c.notNull /\ Given(c.name) /\ Payload[c.name] = Null
        \/ /\ input.e \in KeyedEntities
           /\ HasRow(input.e, IdField(input.e), Payload[IdField(input.e)])

C10_Witness ==
    /\ \E i \in DOMAIN tables["memoryConnections"] :
          /\ ~HasRow("coreMemories", "memoryId", tables["memoryConnections"][i].sourceMemoryId)
          /\ ~HasRow("coreMemories", "memoryId", tables["memoryConnections"][i].targetMemoryId)
    /\ \E i \in DOMAIN tables["consciousnessStates"] :
          /\ tables["consciousnessStates"][i].previousStateId.t = "string"
          /\ ~HasRow("consciousnessStates", "stateId",
                     tables["consciousnessStates"][i].previousStateId)

====
